---- MODULE Spec2Model ----
(***************************************************************************)
(* Model of the chat route of the flight-booking chatbot: the POST handler *)
(* (auth, message filtering, model stream with tool executions, onFinish   *)
(* persistence) and the DELETE handler (id check, auth, ownership check,   *)
(* removal), over a chat store and a reservation store shared by           *)
(* concurrent requests.                                                    *)
(*                                                                         *)
(* The repository holds three revisions of the route:                      *)
(*   "validated" : src/app/(chat)/api/chat/route.ts lines 1-264            *)
(*   "provider"  : src/app/(chat)/api/chat/route.ts lines 265-636          *)
(*   "original"  : src/unnamed/part_000                                    *)
(* A deployment runs one of them; the variable variant says which.         *)
(***************************************************************************)
EXTENDS Integers, Sequences, FiniteSets, Bags, TLC

\* ---------------------------------------------------------------- bounds
\* requests served in one behaviour of the full specification and of the
\* chat-only one
MaxRequests == 2
MaxChatRequests == 3
\* tool executions per POST
MaxToolCalls == 1
\* messages in the body of a POST and requests served in the specification of
\* the message filter
MaxLen == 3
MaxFilterRequests == 1

\* ------------------------------------------------------------- universes
Variants == {"validated", "provider", "original"}
Users == {"A", "B"}
\* what auth() can resolve to: null, a session without user, a session whose
\* user has no id, or the session of a user
NullSession == "null"
NoUserSession == "nouser"
NoIdSession == "noid"
Sessions == {NullSession, NoUserSession, NoIdSession} \cup Users
ChatIds == {"c1", "c2"}
NoId == ""
ReservationIds == {"r1", "r2"}
Names == {"Ann", "Bob"}
Flights == {"F1"}
SeatLists == {<<"1A", "1B">>}
Prices == {100, 250}
Dep == [cityName |-> "SFO", airportCode |-> "SFO", timestamp |-> "t0", gate |-> "G1", terminal |-> "T1"]
Arr == [cityName |-> "JFK", airportCode |-> "JFK", timestamp |-> "t1", gate |-> "G2", terminal |-> "T2"]

VARIABLES variant, chats, reservations, usedIds, requests, arrivals, toolReturn, response,
          invoked

vars == <<variant, chats, reservations, usedIds, requests, arrivals, toolReturn, response,
          invoked>>

\* invoked is a history variable: the tools the model has executed so far. No
\* handler and no tool reads it.

\* ------------------------------------------------------------- sessions
\* `!session`
SessionMissing(s) == s = NullSession
\* `session.user` is present
HasUser(s) == s \in Users \cup {NoIdSession}
\* `session?.user?.id` is truthy
HasUserId(s) == s \in Users

\* ------------------------------------------------------------- messages
\* the request body's messages: UI messages with an id, a role and a content
UIMessage(c, i) == [id |-> i, role |-> "user", content |-> c]
UIMessages(cs) == [i \in 1..Len(cs) |-> UIMessage(cs[i], i)]
InputMessageLists == {UIMessages(<<"", "a">>), UIMessages(<<"b", "", "a">>)}
\* every message list of at most MaxLen messages over three contents
Contents == {"", "a", "b"}
ContentLists == UNION {[1..n -> Contents] : n \in 0..MaxLen}
AllMessageLists == {UIMessages(cs) : cs \in ContentLists}

\* convertToCoreMessages keeps role and content of each message and drops the rest
convertToCoreMessages(ms) == [i \in 1..Len(ms) |-> [role |-> ms[i].role, content |-> ms[i].content]]

RECURSIVE filterNonEmpty(_)
filterNonEmpty(ms) ==
  IF ms = <<>> THEN <<>>
  ELSE IF Len(Head(ms).content) > 0
       THEN <<Head(ms)>> \o filterNonEmpty(Tail(ms))
       ELSE filterNonEmpty(Tail(ms))

\* the conversion without the filter
coreMessagesUnfiltered(ms) == convertToCoreMessages(ms)

\* `convertToCoreMessages(messages).filter((message) => message.content.length > 0)`
coreMessagesOf(ms) == filterNonEmpty(convertToCoreMessages(ms))

\* the n-th message emitted by the model in one response
ResponseMessage(n) == [role |-> "assistant", content |-> "m" \o ToString(n)]
responseMessagesOf(n) == [i \in 1..n |-> ResponseMessage(i)]

\* ---------------------------------------------------------------- stores
\* a save that appends to the messages of an existing chat
saveChatAppending(store, id, messages, userId) ==
  IF id \in DOMAIN store
  THEN [store EXCEPT ![id].messages = @ \o messages]
  ELSE [k \in DOMAIN store \cup {id} |->
          IF k = id THEN [messages |-> messages, userId |-> userId] ELSE store[k]]

\* db/queries: a chat row is {id, messages, userId}; saveChat creates the chat
\* on first save and replaces the messages of an existing one
saveChat(store, id, messages, userId) ==
  IF id \in DOMAIN store
  THEN [store EXCEPT ![id].messages = messages]
  ELSE [k \in DOMAIN store \cup {id} |->
          IF k = id THEN [messages |-> messages, userId |-> userId] ELSE store[k]]

deleteChatById(store, id) == [k \in DOMAIN store \ {id} |-> store[k]]

\* db/queries: a reservation row is {id, userId, details, hasCompletedPayment}
createReservation(store, id, userId, details) ==
  [k \in DOMAIN store \cup {id} |->
     IF k = id
     THEN [userId |-> userId, details |-> details, hasCompletedPayment |-> FALSE]
     ELSE store[k]]

\* ------------------------------------------------------------- requests
\* a request in flight: the handler's position and its local variables.
\* requests is the bag of the requests in flight, arrivals counts the requests
\* received so far.
NewRequest(kind, id, s) ==
  [kind |-> kind, pc |-> "start", id |-> id, session |-> s, live |-> s,
   messages |-> <<>>, coreMessages |-> <<>>, toolCalls |-> 0, calls |-> {}]

InFlight == BagToSet(requests)
Leave(req) == requests (-) SetToBag({req})
Move(req, next) == Leave(req) (+) SetToBag({next})

\* the tool execution of the last step, if it was one: the tool, the model's
\* arguments, the value returned
NoTool == [tool |-> "none", args |-> [none |-> TRUE], result |-> [none |-> TRUE]]

\* the response of the last step, if it sent one or completed one: the request it
\* answers, its status, whether the handler let an exception escape instead,
\* whether the request is over, the store operations the request made, and the
\* ones of them that the store rejected in this step
NoResponse ==
  [kind |-> "none", id |-> NoId, session |-> NullSession,
   status |-> 0, escaped |-> FALSE, finished |-> FALSE, calls |-> {}, rejected |-> {}]
ResponseOf(req, st) ==
  [kind |-> req.kind, id |-> req.id, session |-> req.session,
   status |-> st, escaped |-> FALSE, finished |-> TRUE, calls |-> req.calls,
   rejected |-> {}]

InitStores ==
  /\ variant \in Variants
  /\ reservations = <<>>
  /\ usedIds = {}
  /\ requests = EmptyBag
  /\ arrivals = 0
  /\ toolReturn = NoTool
  /\ response = NoResponse
  /\ invoked = {}

\* a chat as an earlier POST of the user left it
EarlierChat(id, userId) ==
  saveChat(<<>>, id, coreMessagesOf(UIMessages(<<"", "a">>)) \o responseMessagesOf(1), userId)

\* the store holds a chat of user B that no request of this specification names
Init ==
  /\ InitStores
  /\ chats = EarlierChat("c2", "B")

\* --------------------------------------------------------------- DELETE
\* status of a DELETE whose URL carries no id
MissingIdStatus(v) == IF v = "original" THEN 404 ELSE 400

\* the session check of DELETE
DeleteUnauthorized(v, s) ==
  IF v = "original"
  THEN SessionMissing(s) \/ ~HasUser(s)
  ELSE SessionMissing(s) \/ ~HasUserId(s)

\* status of a DELETE on a chat of another user
NotOwnerStatus(v) == IF v = "original" THEN 401 ELSE 403

\* `chat.userId !== session.user.id`
NotOwner(chat, s) == ~HasUserId(s) \/ chat.userId # s

\* DELETE up to the session check
DeleteStart(id, s, max) ==
  /\ arrivals < max
  /\ arrivals' = arrivals + 1
  /\ LET req == NewRequest("DELETE", id, s)
     IN IF id = NoId
        THEN /\ response' = ResponseOf(req, MissingIdStatus(variant))
             /\ requests' = requests
        ELSE IF DeleteUnauthorized(variant, s)
        THEN /\ response' = ResponseOf(req, 401)
             /\ requests' = requests
        ELSE /\ response' = NoResponse
             /\ requests' = requests (+) SetToBag({[req EXCEPT !.pc = "lookup"]})
  /\ toolReturn' = NoTool
  /\ UNCHANGED <<variant, chats, reservations, usedIds, invoked>>

\* the lookup without the `!chat` check: a missing chat goes on to the removal
DeleteLookupNoExistenceCheck(req, dbOk) ==
  /\ req.pc = "lookup"
  /\ LET looked == [req EXCEPT !.calls = @ \cup {"getChatById"}]
         id == req.id
     IN IF ~dbOk
        THEN /\ response' = ResponseOf(looked, 500)
             /\ requests' = Leave(req)
        ELSE IF id \in DOMAIN chats /\ NotOwner(chats[id], req.session)
        THEN /\ response' = ResponseOf(looked, NotOwnerStatus(variant))
             /\ requests' = Leave(req)
        ELSE /\ response' = NoResponse
             /\ requests' = Move(req, [looked EXCEPT !.pc = "remove"])
  /\ toolReturn' = NoTool
  /\ UNCHANGED <<variant, chats, reservations, usedIds, arrivals, invoked>>

\* getChatById and the existence and ownership checks
DeleteLookup(req, dbOk) ==
  /\ req.pc = "lookup"
  /\ LET looked == [req EXCEPT !.calls = @ \cup {"getChatById"}]
         id == req.id
     IN IF ~dbOk
        THEN /\ response' = ResponseOf(looked, 500)
             /\ requests' = Leave(req)
        ELSE IF id \notin DOMAIN chats
        THEN /\ response' = ResponseOf(looked, 404)
             /\ requests' = Leave(req)
        ELSE IF NotOwner(chats[id], req.session)
        THEN /\ response' = ResponseOf(looked, NotOwnerStatus(variant))
             /\ requests' = Leave(req)
        ELSE /\ response' = NoResponse
             /\ requests' = Move(req, [looked EXCEPT !.pc = "remove"])
  /\ toolReturn' = NoTool
  /\ UNCHANGED <<variant, chats, reservations, usedIds, arrivals, invoked>>

\* the removal cascading to the reservations of the chat's user
DeleteRemoveCascading(req, dbOk) ==
  /\ req.pc = "remove"
  /\ LET removed == [req EXCEPT !.calls = @ \cup {"deleteChatById"}]
     IN /\ response' = ResponseOf(removed, IF dbOk THEN 200 ELSE 500)
        /\ requests' = Leave(req)
        /\ chats' = IF dbOk THEN deleteChatById(chats, req.id) ELSE chats
        /\ reservations' =
             IF dbOk
             THEN [k \in {j \in DOMAIN reservations : reservations[j].userId # req.session}
                     |-> reservations[k]]
             ELSE reservations
  /\ toolReturn' = NoTool
  /\ UNCHANGED <<variant, usedIds, arrivals, invoked>>

\* deleteChatById and the success response
DeleteRemove(req, dbOk) ==
  /\ req.pc = "remove"
  /\ LET removed == [req EXCEPT !.calls = @ \cup {"deleteChatById"}]
     IN /\ response' = ResponseOf(removed, IF dbOk THEN 200 ELSE 500)
        /\ requests' = Leave(req)
        /\ chats' = IF dbOk THEN deleteChatById(chats, req.id) ELSE chats
  /\ toolReturn' = NoTool
  /\ UNCHANGED <<variant, reservations, usedIds, arrivals, invoked>>

\* ----------------------------------------------------------------- POST
\* what the streamText call can do: resolve, or throw a value that is or is
\* not an Error and whose message holds some of the texts the handler looks for
Messages ==
  {{}, {"permission denied"}, {"API key"}, {"quota"}, {"model"},
   {"model", "not found"}, {"quota", "model", "not found"}}
StreamOutcomes ==
  [thrown : {FALSE}, isError : {FALSE}, message : {{}}]
    \cup [thrown : {TRUE}, isError : {FALSE}, message : {{}}]
    \cup [thrown : {TRUE}, isError : {TRUE}, message : Messages]

\* the catch block around streamText
StreamErrorStatus(o) ==
  IF ~o.isError THEN 500
  ELSE IF o.message \cap {"permission denied", "API key", "quota"} # {} THEN 403
  ELSE IF {"model", "not found"} \subseteq o.message THEN 400
  ELSE 500

\* POST up to the return of the streaming response
PostStart(id, messages, s, o, max) ==
  /\ arrivals < max
  /\ arrivals' = arrivals + 1
  /\ LET req == NewRequest("POST", id, s)
     IN IF SessionMissing(s)
        THEN /\ response' = ResponseOf(req, 401)
             /\ requests' = requests
        ELSE IF o.thrown
        THEN /\ response' =
                  IF variant = "original"
                  THEN [ResponseOf(req, 0) EXCEPT !.escaped = TRUE]
                  ELSE ResponseOf(req, StreamErrorStatus(o))
             /\ requests' = requests
        ELSE /\ response' = [ResponseOf(req, 200) EXCEPT !.finished = FALSE]
             /\ requests' = requests (+) SetToBag({
                  [req EXCEPT !.pc = "streaming", !.messages = messages,
                              !.coreMessages = coreMessagesOf(messages)]})
  /\ toolReturn' = NoTool
  /\ UNCHANGED <<variant, chats, reservations, usedIds, invoked>>

\* the session onFinish tests: the one resolved at entry, or a fresh auth()
FinishSession(v, req) == IF v = "original" THEN req.live ELSE req.session

\* the response messages ahead of the input's
TranscriptResponsesFirst(coreMessages, responseMessages) == responseMessages \o coreMessages

\* `[...coreMessages, ...responseMessages]`
Transcript(coreMessages, responseMessages) == coreMessages \o responseMessages

\* onFinish without the try around saveChat
OnFinishRethrows(v) == FALSE

\* `try { await saveChat(...) } catch (error) { console.error(...) }`
OnFinishCatches(v) == TRUE

\* the model's final message, then onFinish
PostFinish(req, dbOk) ==
  /\ req.pc = "streaming"
  /\ LET s == FinishSession(variant, req)
         all == Transcript(req.coreMessages, responseMessagesOf(req.toolCalls + 1))
         saved == ResponseOf([req EXCEPT !.calls = @ \cup {"saveChat"}], 200)
     IN IF HasUserId(s)
        THEN /\ chats' = IF dbOk THEN saveChat(chats, req.id, all, s) ELSE chats
             /\ response' =
                  IF dbOk THEN saved
                  ELSE IF OnFinishCatches(variant)
                  THEN [saved EXCEPT !.rejected = {"saveChat"}]
                  ELSE [saved EXCEPT !.rejected = {"saveChat"}, !.escaped = TRUE]
        ELSE /\ chats' = chats
             /\ response' = ResponseOf(req, 200)
  /\ requests' = Leave(req)
  /\ toolReturn' = NoTool
  /\ UNCHANGED <<variant, reservations, usedIds, arrivals, invoked>>

\* ---------------------------------------------------------------- tools
CanCallTool(req) ==
  /\ req.pc = "streaming"
  /\ req.toolCalls < MaxToolCalls

Called(req) == [req EXCEPT !.toolCalls = @ + 1]

ToolReturn(tool, args, result) == [tool |-> tool, args |-> args, result |-> result]
\* an execution that looked a reservation up, and whether getReservationById
\* resolved
LookupReturn(tool, args, result, dbOk) ==
  [tool |-> tool, args |-> args, result |-> result, resolved |-> dbOk]
\* an execution of createReservation that got a price from generateReservationPrice
PricedReturn(args, result, totalPriceInUSD) ==
  [tool |-> "createReservation", args |-> args, result |-> result,
   price |-> totalPriceInUSD]

Error(msg) == [error |-> msg]
Thrown == [exception |-> TRUE]
IsError(result) == "error" \in DOMAIN result
IsThrown(result) == "exception" \in DOMAIN result

\* object spread {...a, ...b}: the keys of both, b's value where both have the key
Spread(a, b) ==
  [k \in DOMAIN a \cup DOMAIN b |-> IF k \in DOMAIN b THEN b[k] ELSE a[k]]

\* the arguments the model sends to createReservation: the declared properties,
\* possibly with a price of its own
ReservationProps ==
  [seats : SeatLists, flightNumber : Flights, departure : {Dep}, arrival : {Arr},
   passengerName : Names]
ModelPrices == {1}
ReservationArgs ==
  ReservationProps
    \cup {Spread(p, [totalPriceInUSD |-> m]) : p \in ReservationProps, m \in ModelPrices}

\* the parameters schema of createReservation keeps the declared keys only
ReservationParameters ==
  {"seats", "flightNumber", "departure", "arrival", "passengerName"}
ParseReservationParameters(args) ==
  [k \in DOMAIN args \cap ReservationParameters |-> args[k]]

\* the price left out of the stored details
DetailsToStoreNoPrice(props, totalPriceInUSD) == props

\* `{ ...props, totalPriceInUSD }`
DetailsToStore(props, totalPriceInUSD) ==
  Spread(props, [totalPriceInUSD |-> totalPriceInUSD])

\* `{ id: reservationId, ...props, totalPriceInUSD }`
ReservationResult(reservationId, props, totalPriceInUSD) ==
  Spread(Spread([id |-> reservationId], props), [totalPriceInUSD |-> totalPriceInUSD])

\* lib/utils generateUUID: an id no earlier call returned
generateUUID(used) == ReservationIds \ used

\* one id for every execution
NewReservationIdFixed(uuid) == "r1"

\* `const reservationId = generateUUID()`: the id of one execution
NewReservationId(uuid) == uuid

\* the session the request entered with, in place of a fresh one
ExecutionSessionAtEntry(req) == req.session

\* `const session = await auth()` inside execute: the session as it is now
ExecutionSession(req) == req.live

\* createReservation.execute: price, auth(), generateUUID, then the insert.
\* fault says which external call fails, if any.
ToolCreateReservation(req, args, totalPriceInUSD, uuid, fault) ==
  /\ CanCallTool(req)
  /\ uuid \in generateUUID(usedIds)
  /\ LET props == ParseReservationParameters(args)
         s == ExecutionSession(req)
         reservationId == NewReservationId(uuid)
         caught == variant = "original"
         failed == IF caught THEN Error("Failed to create reservation.") ELSE Thrown
         called == Called(req)
         stored == [called EXCEPT !.calls = @ \cup {"createReservation"}]
     IN IF fault = "price"
        THEN /\ toolReturn' = ToolReturn("createReservation", args, failed)
             /\ requests' = Move(req, called)
             /\ UNCHANGED <<reservations, usedIds>>
        ELSE /\ usedIds' = usedIds \cup {uuid}
             /\ IF ~HasUserId(s)
                THEN /\ toolReturn' = PricedReturn(args,
                          IF caught
                          THEN Error("User is not signed in to perform this action!")
                          ELSE Error("User session lost. Cannot create reservation."),
                          totalPriceInUSD)
                     /\ requests' = Move(req, called)
                     /\ UNCHANGED reservations
                ELSE IF fault = "db"
                THEN /\ toolReturn' = PricedReturn(args, failed, totalPriceInUSD)
                     /\ requests' = Move(req, stored)
                     /\ UNCHANGED reservations
                ELSE /\ reservations' =
                          createReservation(reservations, reservationId, s,
                                            DetailsToStore(props, totalPriceInUSD))
                     /\ toolReturn' = PricedReturn(args,
                          ReservationResult(reservationId, props, totalPriceInUSD),
                          totalPriceInUSD)
                     /\ requests' = Move(req, stored)
  /\ response' = NoResponse
  /\ invoked' = invoked \cup {"createReservation"}
  /\ UNCHANGED <<variant, chats, arrivals>>

\* ReservationDetailsSchema.safeParse: every declared key is present and the
\* nested objects have theirs
PlaceKeys == {"cityName", "airportCode", "timestamp", "gate", "terminal"}
DetailsKeys ==
  {"seats", "flightNumber", "departure", "arrival", "passengerName", "totalPriceInUSD"}
ReservationDetailsSchemaOk(details) ==
  /\ DetailsKeys \subseteq DOMAIN details
  /\ PlaceKeys \subseteq DOMAIN details.departure
  /\ PlaceKeys \subseteq DOMAIN details.arrival
  /\ details.totalPriceInUSD \in Int
ReservationDetailsSchemaData(details) == [k \in DetailsKeys |-> details[k]]

\* seats.join(", ")
RECURSIVE Join(_)
Join(seats) ==
  IF seats = <<>> THEN ""
  ELSE IF Len(seats) = 1 THEN seats[1]
  ELSE seats[1] \o ", " \o Join(Tail(seats))

\* the arguments the model sends to displayBoardingPass
BoardingPassArgs ==
  [reservationId : ReservationIds, passengerName : Names, flightNumber : Flights,
   seat : {"1A"}, departure : {Dep}, arrival : {Arr}]

NotFound(reservationId) == Error("Reservation " \o reservationId \o " not found.")

BoardingPassData(reservationId, details) ==
  [reservationId |-> reservationId,
   passengerName |-> details.passengerName,
   flightNumber |-> details.flightNumber,
   seat |-> Join(details.seats),
   departure |-> details.departure,
   arrival |-> details.arrival]

\* the payment check left out
PaymentMissingSkipped(reservation) == FALSE

\* `!reservation.hasCompletedPayment`
PaymentMissing(reservation) == ~reservation.hasCompletedPayment

\* displayBoardingPass.execute of the validated revision
BoardingPassValidated(store, args, dbOk) ==
  LET reservationId == args.reservationId
  IN IF ~dbOk
     THEN Error("An internal error occurred while retrieving boarding pass details.")
     ELSE IF reservationId \notin DOMAIN store THEN NotFound(reservationId)
     ELSE IF PaymentMissing(store[reservationId])
     THEN Error("Payment not completed for this reservation. Cannot display boarding pass.")
     ELSE IF ~ReservationDetailsSchemaOk(store[reservationId].details)
     THEN Error("Invalid reservation details structure in database.")
     ELSE BoardingPassData(reservationId,
                           ReservationDetailsSchemaData(store[reservationId].details))

\* displayBoardingPass.execute of the provider revision
BoardingPassProvider(store, args, dbOk) ==
  LET reservationId == args.reservationId
  IN IF ~dbOk THEN Error("Could not retrieve boarding pass details.")
     ELSE IF reservationId \notin DOMAIN store THEN NotFound(reservationId)
     ELSE IF PaymentMissing(store[reservationId])
     THEN Error("Payment not completed for this reservation. Cannot display boarding pass.")
     ELSE BoardingPassData(reservationId, store[reservationId].details)

\* displayBoardingPass.execute of the original revision
BoardingPassOriginal(store, args, dbOk) ==
  LET reservationId == args.reservationId
  IN IF ~dbOk THEN Error("Could not display boarding pass.")
     ELSE IF reservationId \notin DOMAIN store THEN NotFound(reservationId)
     ELSE IF PaymentMissing(store[reservationId])
     THEN Error("Payment not completed. Cannot display boarding pass.")
     ELSE Spread(args, [status |-> "Displayed (using potentially unverified details)"])

\* a boarding pass only after verifyPayment was executed
BoardingPassResultAfterVerify(v, store, args, dbOk) ==
  IF "verifyPayment" \notin invoked THEN Error("Payment was not verified.")
  ELSE CASE v = "validated" -> BoardingPassValidated(store, args, dbOk)
         [] v = "provider" -> BoardingPassProvider(store, args, dbOk)
         [] v = "original" -> BoardingPassOriginal(store, args, dbOk)

BoardingPassResult(v, store, args, dbOk) ==
  CASE v = "validated" -> BoardingPassValidated(store, args, dbOk)
    [] v = "provider" -> BoardingPassProvider(store, args, dbOk)
    [] v = "original" -> BoardingPassOriginal(store, args, dbOk)

ToolDisplayBoardingPass(req, args, dbOk) ==
  /\ CanCallTool(req)
  /\ toolReturn' = LookupReturn("displayBoardingPass", args,
                                BoardingPassResult(variant, reservations, args, dbOk), dbOk)
  /\ requests' = Move(req, Called(req))
  /\ response' = NoResponse
  /\ invoked' = invoked \cup {"displayBoardingPass"}
  /\ UNCHANGED <<variant, chats, reservations, usedIds, arrivals>>

\* a missing reservation reported as an unpaid one
VerifyPaymentResultNoNotFound(store, reservationId, dbOk) ==
  IF ~dbOk THEN Error("Could not verify payment status.")
  ELSE IF reservationId \notin DOMAIN store THEN [hasCompletedPayment |-> FALSE]
  ELSE [hasCompletedPayment |-> store[reservationId].hasCompletedPayment]

\* verifyPayment.execute
VerifyPaymentResult(store, reservationId, dbOk) ==
  IF ~dbOk THEN Error("Could not verify payment status.")
  ELSE IF reservationId \notin DOMAIN store THEN NotFound(reservationId)
  ELSE [hasCompletedPayment |-> store[reservationId].hasCompletedPayment]

ToolVerifyPayment(req, reservationId, dbOk) ==
  /\ CanCallTool(req)
  /\ toolReturn' = LookupReturn("verifyPayment", [reservationId |-> reservationId],
                                VerifyPaymentResult(reservations, reservationId, dbOk), dbOk)
  /\ requests' = Move(req, Called(req))
  /\ response' = NoResponse
  /\ invoked' = invoked \cup {"verifyPayment"}
  /\ UNCHANGED <<variant, chats, reservations, usedIds, arrivals>>

\* authorizePayment.execute
AuthorizePaymentResult(v, reservationId) ==
  IF v = "original"
  THEN [reservationId |-> reservationId, status |-> "Awaiting user payment authorization"]
  ELSE [message |-> "User needs to authorize payment for reservation "
                      \o reservationId \o ".",
        reservationId |-> reservationId]

\* an authorization that marks the stored reservation as paid
ToolAuthorizePaymentMarkingPaid(req, reservationId) ==
  /\ CanCallTool(req)
  /\ toolReturn' = ToolReturn("authorizePayment", [reservationId |-> reservationId],
                              AuthorizePaymentResult(variant, reservationId))
  /\ requests' = Move(req, Called(req))
  /\ response' = NoResponse
  /\ invoked' = invoked \cup {"authorizePayment"}
  /\ reservations' =
       IF reservationId \in DOMAIN reservations
       THEN [reservations EXCEPT ![reservationId].hasCompletedPayment = TRUE]
       ELSE reservations
  /\ UNCHANGED <<variant, chats, usedIds, arrivals>>

\* authorizePayment.execute as a step of the stream
ToolAuthorizePayment(req, reservationId) ==
  /\ CanCallTool(req)
  /\ toolReturn' = ToolReturn("authorizePayment", [reservationId |-> reservationId],
                              AuthorizePaymentResult(variant, reservationId))
  /\ requests' = Move(req, Called(req))
  /\ response' = NoResponse
  /\ invoked' = invoked \cup {"authorizePayment"}
  /\ UNCHANGED <<variant, chats, reservations, usedIds, arrivals>>

\* getWeather.execute: the fetch resolves ok, resolves not ok, or rejects
WeatherOutcomes == {"ok", "not ok", "rejected"}
GetWeatherResult(v, outcome) ==
  CASE outcome = "rejected" -> Thrown
    [] outcome = "not ok" ->
         IF v = "original" THEN Error("Failed to fetch weather")
         ELSE Error("Failed to fetch weather: " \o "Bad Gateway")
    [] outcome = "ok" -> [weatherData |-> "forecast"]

ToolGetWeather(req, outcome) ==
  /\ CanCallTool(req)
  /\ toolReturn' = ToolReturn("getWeather", [latitude |-> 0, longitude |-> 0],
                              GetWeatherResult(variant, outcome))
  /\ requests' = Move(req, Called(req))
  /\ response' = NoResponse
  /\ invoked' = invoked \cup {"getWeather"}
  /\ UNCHANGED <<variant, chats, reservations, usedIds, arrivals>>

\* displayFlightStatus, searchFlights, selectSeats: the generator's value, or
\* its exception
SampleTools == {"displayFlightStatus", "searchFlights", "selectSeats"}
SampleResult(tool, ok) == IF ok THEN [sample |-> tool] ELSE Thrown

ToolSample(req, tool, ok) ==
  /\ CanCallTool(req)
  /\ toolReturn' = ToolReturn(tool, [flightNumber |-> "F1"], SampleResult(tool, ok))
  /\ requests' = Move(req, Called(req))
  /\ response' = NoResponse
  /\ invoked' = invoked \cup {tool}
  /\ UNCHANGED <<variant, chats, reservations, usedIds, arrivals>>

\* ----------------------------------------------------------- environment
\* the caller's session ends while its POST is streaming
SessionExpires(req) ==
  /\ req.pc = "streaming"
  /\ HasUserId(req.live)
  /\ requests' = Move(req, [req EXCEPT !.live = NullSession])
  /\ toolReturn' = NoTool
  /\ response' = NoResponse
  /\ UNCHANGED <<variant, chats, reservations, usedIds, arrivals, invoked>>

\* the payment flow outside the route marks a reservation as paid
PaymentCompleted(reservationId) ==
  /\ reservationId \in DOMAIN reservations
  /\ ~reservations[reservationId].hasCompletedPayment
  /\ reservations' = [reservations EXCEPT ![reservationId].hasCompletedPayment = TRUE]
  /\ toolReturn' = NoTool
  /\ response' = NoResponse
  /\ UNCHANGED <<variant, chats, usedIds, requests, arrivals, invoked>>

\* ------------------------------------------------------------------ spec
\* the full route, tools included, for requests on one chat
ToolChatIds == {"c1"}
ToolMessageLists == {UIMessages(<<"", "a">>)}

NextRoute ==
  \/ \E id \in ToolChatIds \cup {NoId}, s \in Sessions : DeleteStart(id, s, MaxRequests)
  \/ \E id \in ToolChatIds, ms \in ToolMessageLists, s \in Sessions, o \in StreamOutcomes :
        PostStart(id, ms, s, o, MaxRequests)

NextSteps ==
  \/ \E req \in InFlight, dbOk \in BOOLEAN : DeleteLookup(req, dbOk)
  \/ \E req \in InFlight, dbOk \in BOOLEAN : DeleteRemove(req, dbOk)
  \/ \E req \in InFlight, dbOk \in BOOLEAN : PostFinish(req, dbOk)
  \/ \E req \in InFlight : SessionExpires(req)

NextTools ==
  \/ \E req \in InFlight, args \in ReservationArgs, p \in Prices, uuid \in ReservationIds,
        fault \in {"none", "price", "db"} : ToolCreateReservation(req, args, p, uuid, fault)
  \/ \E req \in InFlight, args \in BoardingPassArgs, dbOk \in BOOLEAN :
        ToolDisplayBoardingPass(req, args, dbOk)
  \/ \E req \in InFlight, rid \in ReservationIds, dbOk \in BOOLEAN :
        ToolVerifyPayment(req, rid, dbOk)
  \/ \E req \in InFlight, rid \in ReservationIds : ToolAuthorizePayment(req, rid)
  \/ \E req \in InFlight, outcome \in WeatherOutcomes : ToolGetWeather(req, outcome)
  \/ \E req \in InFlight, tool \in SampleTools, ok \in BOOLEAN : ToolSample(req, tool, ok)
  \/ \E rid \in ReservationIds : PaymentCompleted(rid)

Next == NextRoute \/ NextSteps \/ NextTools

Spec == Init /\ [][Next]_vars

\* the chat store under more requests, chats and message lists: the handlers'
\* steps without tool executions, which leave the chat store alone, from a store
\* that is empty or holds a chat saved by an earlier POST of user A
InitChat ==
  /\ InitStores
  /\ chats \in {<<>>, EarlierChat("c1", "A")}

NextChatRoute ==
  \/ \E id \in ChatIds \cup {NoId}, s \in Sessions : DeleteStart(id, s, MaxChatRequests)
  \/ \E id \in ChatIds, ms \in InputMessageLists, s \in Sessions, o \in StreamOutcomes :
        PostStart(id, ms, s, o, MaxChatRequests)

NextChat == NextChatRoute \/ NextSteps

SpecChat == InitChat /\ [][NextChat]_vars

\* the POST handler alone, for one chat and every message list of the bound
InitFilter ==
  /\ InitStores
  /\ chats = <<>>

FilterSessions == {NullSession, "A"}

NextFilter ==
  \/ \E id \in ToolChatIds, ms \in AllMessageLists, s \in FilterSessions, o \in StreamOutcomes :
        PostStart(id, ms, s, o, MaxFilterRequests)
  \/ \E req \in InFlight, dbOk \in BOOLEAN : PostFinish(req, dbOk)

SpecFilter == InitFilter /\ [][NextFilter]_vars

TypeOK ==
  /\ variant \in Variants
  /\ DOMAIN chats \subseteq ChatIds
  /\ DOMAIN reservations \subseteq usedIds
  /\ usedIds \subseteq ReservationIds
  /\ BagCardinality(requests) <= arrivals

\* ---------------------------------------------------------------- claims
PersistenceCalls == {"saveChat", "createReservation", "deleteChatById"}

\* the request req takes the step
Steps(req) == CopiesIn(req, requests') < CopiesIn(req, requests)

BoardingPassReturned ==
  /\ toolReturn.tool = "displayBoardingPass"
  /\ ~IsError(toolReturn.result)

ReservationCreated ==
  /\ toolReturn.tool = "createReservation"
  /\ ~IsError(toolReturn.result)
  /\ ~IsThrown(toolReturn.result)

\* C1: every POST and DELETE whose session resolves to no user id is answered
\* with 401, whatever its other inputs are, and makes no persistence call.
C1_UnauthorizedIs401 ==
  (response.kind \in {"POST", "DELETE"} /\ ~HasUserId(response.session))
    => /\ response.status = 401
       /\ response.calls \cap PersistenceCalls = {}

\* C2: displayBoardingPass returns boarding data only for a stored reservation
\* whose payment flag is true; for a stored reservation whose flag is false it
\* returns an object with an error and nothing else.
C2_BoardingPassOnlyWhenPaid ==
  toolReturn.tool = "displayBoardingPass" =>
    LET reservationId == toolReturn.args.reservationId
        stored == reservationId \in DOMAIN reservations
    IN /\ ~IsError(toolReturn.result) =>
            stored /\ reservations[reservationId].hasCompletedPayment
       /\ (stored /\ ~reservations[reservationId].hasCompletedPayment) =>
            DOMAIN toolReturn.result = {"error"}

C2_Witness ==
  /\ BoardingPassReturned
  /\ reservations[toolReturn.args.reservationId].hasCompletedPayment

\* C3: every passenger and flight field of a boarding pass that displayBoardingPass
\* returns is the value of the stored, schema-valid details, never the value the
\* call's arguments carry.
C3_BoardingPassFromStore ==
  BoardingPassReturned =>
    LET reservationId == toolReturn.args.reservationId
        details == reservations[reservationId].details
    IN /\ reservationId \in DOMAIN reservations
       /\ ReservationDetailsSchemaOk(details)
       /\ toolReturn.result.passengerName = details.passengerName
       /\ toolReturn.result.flightNumber = details.flightNumber
       /\ toolReturn.result.seat = Join(details.seats)
       /\ toolReturn.result.departure = details.departure
       /\ toolReturn.result.arrival = details.arrival

\* C4: a DELETE of an existing chat by a user who does not own it is answered
\* with 403 and leaves the chat store as it was.
C4_NotOwnerIs403 ==
  [][\A req \in InFlight :
       (/\ req.pc = "lookup"
        /\ Steps(req)
        /\ req.id \in DOMAIN chats
        /\ req.session \in Users
        /\ chats[req.id].userId # req.session
        /\ response'.status # 500)
         => /\ response'.status = 403
            /\ chats' = chats]_vars

\* C5: a chat leaves the store only in the step of a DELETE whose user is the
\* owner the chat has at that moment.
C5_OnlyOwnerRemoves ==
  [][\A id \in DOMAIN chats :
       id \notin DOMAIN chats' =>
         /\ response'.kind = "DELETE"
         /\ response'.id = id
         /\ response'.session = chats[id].userId]_vars

\* C6: a DELETE that passed the session check and names a chat the store does
\* not hold is answered with 404, ends without a removal and leaves the chat
\* store as it was.
C6_MissingChatIs404 ==
  [][\A req \in InFlight :
       (/\ req.pc = "lookup"
        /\ Steps(req)
        /\ req.id \notin DOMAIN chats
        /\ response'.status # 500)
         => /\ response'.status = 404
            /\ response'.finished
            /\ requests' = Leave(req)
            /\ "deleteChatById" \notin response'.calls
            /\ chats' = chats]_vars

C6_Witness ==
  /\ response.kind = "DELETE"
  /\ response.status = 404
  /\ HasUserId(response.session)
  /\ response.calls = {"getChatById"}

\* C7: a DELETE without an id is answered with 400 and makes no call to the
\* chat store.
C7_MissingIdIs400 ==
  (response.kind = "DELETE" /\ response.id = NoId)
    => /\ response.status = 400
       /\ response.calls = {}

\* C8: a DELETE by the owner of a stored chat goes on to the removal, and the
\* removal is answered with 200, takes exactly that chat out of the store and
\* changes no other chat and no reservation.
C8_OwnerDeleteRemovesOnlyThatChat ==
  [][\A req \in InFlight :
       /\ (/\ req.pc = "lookup"
           /\ Steps(req)
           /\ req.id \in DOMAIN chats
           /\ chats[req.id].userId = req.session
           /\ response'.status # 500)
            => /\ response' = NoResponse
               /\ \E next \in BagToSet(requests') :
                    next.pc = "remove" /\ next.id = req.id /\ next.session = req.session
               /\ chats' = chats
       /\ (/\ req.pc = "remove"
           /\ Steps(req)
           /\ response'.status # 500)
            => /\ response'.status = 200
               /\ response'.id = req.id
               /\ DOMAIN chats' = DOMAIN chats \ {req.id}
               /\ \A k \in DOMAIN chats' : chats'[k] = chats[k]
               /\ reservations' = reservations]_vars

C8_Witness ==
  /\ response.kind = "DELETE"
  /\ response.status = 200
  /\ response.id \notin DOMAIN chats
  /\ "c2" \in DOMAIN chats
  /\ \E k \in DOMAIN reservations : reservations[k].userId = response.session

\* C9: every execution of createReservation that returns a reservation stored
\* it under an id the store did not hold before, and left every reservation
\* the store held as it was.
C9_FreshReservationId ==
  [][ReservationCreated' =>
       LET reservationId == toolReturn'.result.id
       IN /\ reservationId \notin DOMAIN reservations
          /\ reservationId \in DOMAIN reservations'
          /\ \A k \in DOMAIN reservations :
               k \in DOMAIN reservations' /\ reservations'[k] = reservations[k]]_vars

C9_Witness ==
  /\ ReservationCreated
  /\ Cardinality(DOMAIN reservations) = 2

\* C10: after an execution of createReservation that returns a reservation, the
\* stored details are the declared input properties with the price the pricing
\* function returned for them, the returned record is the stored id with the
\* stored details, and a price among the model's arguments is not stored.
C10_StoredPriceAndDetails ==
  ReservationCreated =>
    LET reservationId == toolReturn.result.id
        details == reservations[reservationId].details
    IN /\ reservationId \in DOMAIN reservations
       /\ DOMAIN details = ReservationParameters \cup {"totalPriceInUSD"}
       /\ details.totalPriceInUSD = toolReturn.price
       /\ \A k \in ReservationParameters : details[k] = toolReturn.args[k]
       /\ DOMAIN toolReturn.result = DOMAIN details \cup {"id"}
       /\ \A k \in DOMAIN details : toolReturn.result[k] = details[k]

C10_Witness ==
  /\ ReservationCreated
  /\ "totalPriceInUSD" \in DOMAIN toolReturn.args
  /\ toolReturn.args.totalPriceInUSD # toolReturn.price
  /\ reservations[toolReturn.result.id].details.totalPriceInUSD = toolReturn.price

\* C11: an execution of createReservation that gets to resolve the session and
\* finds no user id in it returns an object with an error and nothing else and
\* leaves the reservation store as it was, also when the request entered with a
\* user; an execution that stores a reservation stores it for the user the session
\* holds at that moment.
C11_SessionRecheckedAtExecution ==
  [][\A req \in InFlight :
       (/\ Steps(req)
        /\ toolReturn'.tool = "createReservation"
        /\ "price" \in DOMAIN toolReturn')
         => /\ ~HasUserId(req.live) =>
                 /\ DOMAIN toolReturn'.result = {"error"}
                 /\ reservations' = reservations
            /\ ReservationCreated' =>
                 /\ HasUserId(req.live)
                 /\ reservations'[toolReturn'.result.id].userId = req.live]_vars

C11_Witness ==
  /\ toolReturn.tool = "createReservation"
  /\ "price" \in DOMAIN toolReturn
  /\ IsError(toolReturn.result)
  /\ toolReturn.result.error \in {"User session lost. Cannot create reservation.",
                                  "User is not signed in to perform this action!"}
  /\ \E req \in InFlight :
       /\ req.toolCalls = 1
       /\ HasUserId(req.session)
       /\ ~HasUserId(req.live)

\* the messages of a list whose content is not empty, in the list's order
NonEmptyInput(ms) == SelectSeq(ms, LAMBDA m : m.content # "")

\* the core messages are the given input messages, one for one
SameMessages(core, ms) ==
  /\ Len(core) = Len(ms)
  /\ \A i \in 1..Len(ms) : core[i].role = ms[i].role /\ core[i].content = ms[i].content

\* C12: the messages a POST sends to the model, and the messages a saved chat
\* starts with, are the input messages whose content is not empty, all of them
\* and in the input's order; no message with empty content is among them.
C12_EmptyMessagesDropped ==
  [][/\ \A req \in BagToSet(requests') :
          req.pc = "streaming" =>
            /\ \A i \in 1..Len(req.coreMessages) : req.coreMessages[i].content # ""
            /\ SameMessages(req.coreMessages, NonEmptyInput(req.messages))
     /\ \A req \in InFlight :
          (/\ req.pc = "streaming"
           /\ Steps(req)
           /\ response'.finished
           /\ chats' # chats)
            => LET kept == NonEmptyInput(req.messages)
                   saved == chats'[req.id].messages
               IN /\ Len(saved) > Len(kept)
                  /\ SameMessages(SubSeq(saved, 1, Len(kept)), kept)
                  /\ \A i \in 1..Len(saved) : saved[i].content # ""
                  /\ \A i \in Len(kept)+1..Len(saved) : saved[i].role = "assistant"]_vars

C12_Witness ==
  \E req \in InFlight :
    /\ req.pc = "streaming"
    /\ Len(req.messages) = 3
    /\ req.messages[2].content = ""
    /\ Len(req.coreMessages) = 2
    /\ req.coreMessages[1].content # req.coreMessages[2].content

\* the messages the model emitted in a POST that executed n tools
Emitted(n) == [i \in 1..n + 1 |-> [role |-> "assistant", content |-> "m" \o ToString(i)]]

\* C13: a POST changes the chat store in one step only, the one that ends the
\* request after the model's last message; its arrival and its tool executions
\* leave the chat store as it was. That step saves, under the request's chat id
\* and for the user of the request, the input's non-empty messages followed by
\* the messages the model emitted, in the order it emitted them.
C13_SavedOnceAfterStream ==
  [][/\ arrivals' # arrivals => chats' = chats
     /\ \A req \in InFlight :
          (req.kind = "POST" /\ Steps(req)) =>
            /\ ~response'.finished => chats' = chats
            /\ chats' # chats =>
                 /\ requests' = Leave(req)
                 /\ "saveChat" \in response'.calls
                 /\ req.id \in DOMAIN chats'
                 /\ \E u \in Users \cap {req.session, req.live} :
                      chats' = saveChat(chats, req.id,
                                        convertToCoreMessages(NonEmptyInput(req.messages))
                                          \o Emitted(req.toolCalls), u)]_vars

C13_Witness ==
  /\ response.kind = "POST"
  /\ response.finished
  /\ "saveChat" \in response.calls
  /\ response.id \in DOMAIN chats
  /\ chats[response.id].userId = response.session
  /\ Len(chats[response.id].messages) = 3
  /\ chats[response.id].messages[3].content = "m2"

\* C14: when saveChat rejects at the end of a POST, the request ends in that
\* step with the 200 response it streamed, no exception leaves the callback,
\* saveChat is not called again, and the chat store is as it was.
C14_SaveFailureSwallowed ==
  [][\A req \in InFlight :
       (/\ req.kind = "POST"
        /\ Steps(req)
        /\ "saveChat" \in response'.rejected)
         => /\ response'.status = 200
            /\ ~response'.escaped
            /\ response'.finished
            /\ requests' = Leave(req)
            /\ chats' = chats]_vars

C14_Witness ==
  /\ response.kind = "POST"
  /\ response.rejected = {"saveChat"}
  /\ response.status = 200
  /\ response.id \notin DOMAIN chats

\* C15: verifyPayment returns the not-found error, and nothing else, for an id
\* the reservation store does not hold, and the payment flag of the stored
\* reservation, and nothing else, for an id it holds; when the lookup fails it
\* returns an error and no flag.
C15_VerifyPaymentReturnsStoredFlag ==
  toolReturn.tool = "verifyPayment" =>
    LET reservationId == toolReturn.args.reservationId
        result == toolReturn.result
    IN IF ~toolReturn.resolved
       THEN DOMAIN result = {"error"}
       ELSE IF reservationId \notin DOMAIN reservations
       THEN result = [error |-> "Reservation " \o reservationId \o " not found."]
       ELSE result =
              [hasCompletedPayment |-> reservations[reservationId].hasCompletedPayment]

C15_Witness ==
  /\ toolReturn.tool = "verifyPayment"
  /\ toolReturn.resolved
  /\ toolReturn.result = [hasCompletedPayment |-> TRUE]
  /\ toolReturn.args.reservationId \in DOMAIN reservations

\* C16: a request whose session holds no user id at the moment of a step changes
\* neither store in that step, and a reservation lookup it makes in that step
\* returns an error: the operation is refused although the request entered with
\* a user.
C16_ExpiredSessionRefused ==
  [][\A req \in InFlight :
       (Steps(req) /\ ~HasUserId(req.live))
         => /\ chats' = chats
            /\ reservations' = reservations
            /\ toolReturn'.tool \in {"verifyPayment", "displayBoardingPass"}
                 => IsError(toolReturn'.result)]_vars

\* C17: no execution of getWeather ends with an exception, and no POST of a user
\* ends with one: a POST whose model call failed is answered with 400, 403 or 500.
C17_UpstreamFailureNeverEscapes ==
  /\ toolReturn.tool = "getWeather" => ~IsThrown(toolReturn.result)
  /\ (response.kind = "POST" /\ HasUserId(response.session)) =>
       /\ ~response.escaped
       /\ response.status \in {200, 400, 403, 500}

TranscriptOf(req) ==
  convertToCoreMessages(NonEmptyInput(req.messages)) \o Emitted(req.toolCalls)

\* a POST ended in this step and its saveChat resolved
Saved(res) ==
  /\ res.kind = "POST"
  /\ res.finished
  /\ "saveChat" \in res.calls
  /\ res.rejected = {}

\* C19: every POST whose saveChat resolves leaves as the stored messages of its
\* chat its own transcript and nothing else, whatever the chat held and
\* whatever other POST for the same chat is in flight or has saved before: of
\* the POSTs for one chat, the stored messages are those of the last to save.
C19_LastWriterWins ==
  [][\A req \in InFlight :
       (Steps(req) /\ Saved(response'))
         => /\ req.id \in DOMAIN chats'
            /\ chats'[req.id].messages = TranscriptOf(req)
            /\ \A k \in DOMAIN chats' \ {req.id} :
                 k \in DOMAIN chats /\ chats'[k] = chats[k]]_vars

C19_Witness ==
  /\ Saved(response)
  /\ response.id \in DOMAIN chats
  /\ \E other \in InFlight :
       /\ other.kind = "POST"
       /\ other.id = response.id
       /\ HasUserId(other.session)
       /\ other.coreMessages # <<>>
       /\ \A i \in 1..Len(other.coreMessages) :
            i <= Len(chats[response.id].messages)
              => other.coreMessages[i] # chats[response.id].messages[i]

\* C20: every stored chat has one owner, a user, and no step of a POST changes
\* the owner or the messages of a stored chat that belongs to a user other than
\* the one the POST came from.
C20_ForeignPostLeavesChat ==
  [][/\ \A id \in DOMAIN chats' : chats'[id].userId \in Users
     /\ \A req \in InFlight :
          (/\ req.kind = "POST"
           /\ Steps(req)
           /\ req.id \in DOMAIN chats
           /\ chats[req.id].userId # req.session)
            => /\ req.id \in DOMAIN chats'
               /\ chats'[req.id].userId = chats[req.id].userId
               /\ chats'[req.id].messages = chats[req.id].messages]_vars

\* C21: every execution of authorizePayment, verifyPayment and
\* displayBoardingPass, whatever it returns, leaves the reservation store and
\* the chat store as they were; and the payment flag of a stored reservation
\* turns true in no step of a request: not in a tool execution, not in an
\* arrival and not in a step that ends a request.
C21_PaymentToolsLeaveStores ==
  [][/\ toolReturn'.tool \in {"authorizePayment", "verifyPayment", "displayBoardingPass"}
          => /\ reservations' = reservations
             /\ chats' = chats
     /\ (\E k \in DOMAIN reservations :
            /\ k \in DOMAIN reservations'
            /\ ~reservations[k].hasCompletedPayment
            /\ reservations'[k].hasCompletedPayment)
          => /\ toolReturn' = NoTool
             /\ response' = NoResponse
             /\ requests' = requests
             /\ arrivals' = arrivals]_vars

C21_Witness ==
  /\ toolReturn.tool = "authorizePayment"
  /\ ~IsError(toolReturn.result)
  /\ toolReturn.args.reservationId \in DOMAIN reservations
  /\ ~reservations[toolReturn.args.reservationId].hasCompletedPayment
====
